---------------------------- MODULE Spec2Model ----------------------------
(***************************************************************************)
(* Model of the B3d4api websocket client (src/gltfutils.js, class B3d4api  *)
(* and defaultMessageHandlers).  One B3d4api instance is modelled: its     *)
(* fields, the transports it has created, the promises it has handed out,  *)
(* and the timers it has started.  Every public method and every transport *)
(* or timer callback is one atomic action, as the JavaScript event loop    *)
(* runs each of them to completion.                                        *)
(*                                                                         *)
(* The methods are written as operators over a record `s` holding the      *)
(* mutable state, so that a method calling another (reconnect -> connect,  *)
(* sendRequest -> sendMessage, onmessage -> _resolveClientRequest) is the  *)
(* composition of the operators.  s.trace lists, in order, the effects of  *)
(* the operation being executed; s.thrown is set when an exception is      *)
(* propagating.                                                            *)
(*                                                                         *)
(* A handler passed in by the caller is modelled by what it does to the    *)
(* dispatch that calls it: it returns (user_ok) or it throws (user_throw). *)
(*                                                                         *)
(* Spec is the instance used through its public methods with textual       *)
(* messages from the server.  SpecFrames adds binary messages and their    *)
(* blob reads, SpecLong follows requests and their timers over longer      *)
(* runs, SpecRegistry is the handler registry with handlers cleared.       *)
(***************************************************************************)
EXTENDS Integers, Sequences, FiniteSets, TLC

(* ------------------------------ bounds --------------------------------- *)
\* promises handed out by connect / sendRequest
MaxReq == 3
\* transports created by connect
MaxWs == 2
\* user handlers registered through the on... methods
MaxUser == 1
\* operations (method calls, transport events, timer callbacks) in one run
MaxSteps == 6
\* user handlers and operations in the runs of the handler registry alone
MaxHandlers == 2
MaxRegistrySteps == 4
\* blob reads in flight at one time
MaxReads == 2
\* operations in the runs that follow a request past its answer
MaxLongSteps == 7

(* ------------------------------ values --------------------------------- *)
\* JavaScript null and undefined
Null == "null"
Undefined == "undefined"

\* !v for the string-valued fields of the model
Falsy(v) == v \in {Null, Undefined, ""}

Hosts == {"ws://h1"}
SessionIds == {"s1", "s2"}

\* request names used by callers of sendRequest and by the server's responses
SendNames == {"connect", "station_list"}
ResponseNames ==
    {"connect", "station_list", "station_select", "preview_start", "preview_stop"}
ServerRequestNames == {"notice"}
Names == SendNames \cup ResponseNames

\* null and undefined where the model holds an object-valued field
NullObj == [js |-> "null"]
UndefinedObj == [js |-> "undefined"]

\* a station list as carried by a station_list response: a JSON array
StationsA == [js |-> "array", items |-> <<[js |-> "object", id |-> "A"]>>]

(* A textual inbound message after JSON.parse.  A field the message does   *)
(* not carry reads as undefined.                                           *)
JsonMsg(rt, rq, st, sid, sts, stid) ==
    [json |-> TRUE, response_to |-> rt, request |-> rq, status |-> st,
     session_id |-> sid, stations |-> sts, station_id |-> stid]

ConnectResponses ==
    {JsonMsg("connect", Undefined, "OK", sid, UndefinedObj, Undefined) :
        sid \in SessionIds \cup {Undefined}}
    \cup {JsonMsg("connect", Undefined, "ERROR", Undefined, UndefinedObj, Undefined)}

StationResponses ==
    {JsonMsg("station_list", Undefined, "OK", Undefined, StationsA, Undefined),
     JsonMsg("station_list", Undefined, "ERROR", Undefined, UndefinedObj, Undefined),
     JsonMsg("station_select", Undefined, "OK", Undefined, UndefinedObj, "A"),
     JsonMsg("station_select", Undefined, "ERROR", Undefined, UndefinedObj, "A")}

PreviewResponses ==
    {JsonMsg("preview_start", Undefined, "OK", Undefined, UndefinedObj, Undefined),
     JsonMsg("preview_stop", Undefined, "OK", Undefined, UndefinedObj, Undefined)}

ServerRequests ==
    {JsonMsg(Undefined, rq, Undefined, Undefined, UndefinedObj, Undefined) :
        rq \in ServerRequestNames}

\* a JSON text carrying neither response_to nor request
OtherMsgs ==
    {JsonMsg(Undefined, Undefined, "OK", Undefined, UndefinedObj, Undefined)}

\* a text that JSON.parse rejects
BadJson == [json |-> FALSE]

InboundTexts ==
    ConnectResponses \cup StationResponses \cup PreviewResponses
        \cup ServerRequests \cup OtherMsgs \cup {BadJson}

\* the close events a transport delivers: { code, reason, wasClean }
CloseEvents ==
    {[code |-> 1000, reason |-> "", wasClean |-> TRUE],
     [code |-> 1006, reason |-> "", wasClean |-> FALSE]}

\* what a caller passes as handler: two functions, and something not callable
UserHandlers == {"user_ok", "user_throw"}
NotCallable == "not_callable"

\* what a caller passes as timeout: 50 ms, and 0 for a value that starts no
\* timer (0, or the wrappers' default null)
Timeouts == {0, 50}

\* what a caller passes to sendRequest / sendMessage as msg
OutMsg(rq) == [js |-> "object", request |-> rq, session_id |-> Undefined]
SendInputs == {NullObj} \cup {OutMsg(rq) : rq \in SendNames \cup {Undefined}}

(* --------------------------- binary frames ----------------------------- *)
(* A frame is a sequence of units.  The five header units stand for the    *)
(* bytes 0..19 (tag, version, frameLength, msgLength, msgType); from unit  *)
(* 6 on a unit stands for one character of the embedded text, one 32-bit   *)
(* integer, one 4-character identifier or one payload byte.  Positions and *)
(* lengths are counted in units.                                           *)
Unit(u, k, v, n) == [u |-> u, k |-> k, v |-> v, n |-> n]
Chars4(v) == Unit("chars", "", v, 0)
Int32(n) == Unit("int32", "", "", n)
Byte(n) == Unit("byte", "", "", n)
LBrace == Unit("{", "", "", 0)
RBrace == Unit("}", "", "", 0)
Space == Unit(" ", "", "", 0)
Nul == Unit("nul", "", "", 0)
NullTok == Unit("null", "", "", 0)
Fld(k, v) == Unit("field", k, v, 0)
FldN(k, n) == Unit("field", k, "", n)

HeaderUnits == 5

FrameOf(msgLength, rest) ==
    [blob |-> TRUE,
     bytes |-> <<Chars4("gLTF"), Int32(1), Int32(HeaderUnits + Len(rest)),
                 Int32(msgLength), Chars4("evnt")>> \o rest]

Payload == <<Int32(0), Chars4("jpg"), Byte(1), Byte(2)>>

\* {"request":"buffer_capture","camera":"c","filesize":2}
SnapText ==
    <<LBrace, Fld("request", "buffer_capture"), Fld("camera", "c"),
      FldN("filesize", 2), RBrace>>
\* {"request":"preview","camera":"c","filesize":1}
PreviewText ==
    <<LBrace, Fld("request", "preview"), Fld("camera", "c"),
      FldN("filesize", 1), RBrace>>
\* {"camera":"d"}
BareText == <<LBrace, Fld("camera", "d"), RBrace>>

SnapFrame == FrameOf(Len(SnapText), SnapText \o Payload)
PreviewFrame == FrameOf(Len(PreviewText), PreviewText \o Payload)
BareFrame == FrameOf(Len(BareText), BareText \o Payload)
\* the text is followed by blanks that msgLength counts
PaddedFrame == FrameOf(Len(SnapText) + 1, SnapText \o <<Space>> \o Payload)
\* msgLength cuts the text short
CutFrame == FrameOf(Len(SnapText) - 1, SnapText \o Payload)
\* the text is padded with NUL characters, which trim() keeps
NulFrame == FrameOf(Len(SnapText) + 1, SnapText \o <<Nul>> \o Payload)
\* the text is the JSON value null
NullFrame == FrameOf(1, <<NullTok>> \o Payload)
\* a message shorter than a header
ShortFrame == [blob |-> TRUE, bytes |-> <<Chars4("gLTF"), Int32(1)>>]

GoodFrames == {SnapFrame, PreviewFrame, BareFrame, PaddedFrame}
BadFrames == {CutFrame, NulFrame, ShortFrame}
Frames == GoodFrames \cup BadFrames \cup {NullFrame}

\* typeof e.data === "object"
IsBlob(data) == "blob" \in DOMAIN data

(* ------------------------------ state ---------------------------------- *)
VARIABLES
    host,               \* this.host
    ws,                 \* this.ws: index into wss, 0 for null
    wss,                \* readyState of every transport created so far
    sessionId,          \* this.sessionId
    stationList,        \* this.stationList
    currentStation,     \* this.currentStation
    isPreviewing,       \* this.isPreviewing
    messageHandlers,    \* this.messageHandlers: key -> list of handlers
    openClientRequests, \* this.openClientRequests: name -> promise, 0 if none
    prom,               \* the promises handed out, with their timers
    reads,              \* the blob reads started by ws.onmessage, not yet done
    trace,              \* ordered effects of the last operation
    steps               \* number of operations executed so far

vars == <<host, ws, wss, sessionId, stationList, currentStation, isPreviewing,
          messageHandlers, openClientRequests, prom, reads, trace, steps>>

(* ------------------------- handler registry ---------------------------- *)
\* the keys of defaultMessageHandlers
DefaultKeys ==
    {"connection:open", "connection:close", "response:connect",
     "response:station_list", "response:station_select",
     "response:preview_start", "response:preview_stop"}

\* names a caller passes to onServerRequest / onServerResponse; "" gives the
\* generic key "request:" / "response:"
UserRequestNames == {"", "notice"}
UserResponseNames == {"", "connect"}

\* the names ws.onmessage gives to decoded frames
FrameRequestNames == {"camera_snap", "camera_frame"}

KeySet ==
    DefaultKeys
        \cup {"request:" \o n :
                  n \in UserRequestNames \cup ServerRequestNames \cup FrameRequestNames}
        \cup {"response:" \o n : n \in UserResponseNames \cup ResponseNames}

\* this.messageHandlers[key] of a key never set
NoHandlers == [def |-> FALSE, list |-> <<>>]

\* handler.slice(1)
Slice1(list) == SubSeq(list, 2, Len(list))

_setMessageHandler(mh, key, handler) ==
    LET cur == IF mh[key].def THEN mh[key].list ELSE <<"placeholder">>
    IN  IF handler = Null
        THEN [mh EXCEPT ![key] = [def |-> TRUE, list |-> Slice1(cur)]]
        ELSE [mh EXCEPT ![key] = [def |-> TRUE, list |-> Append(cur, handler)]]

RECURSIVE SetDefaults(_, _)
SetDefaults(mh, keys) ==
    IF keys = {} THEN mh
    ELSE LET k == CHOOSE x \in keys : TRUE
         IN  SetDefaults(_setMessageHandler(mh, k, "builtin"), keys \ {k})

_setDefaultMessageHandlers(mh) == SetDefaults(mh, DefaultKeys)

\* number of user handlers registered so far
RECURSIVE CountUser(_, _)
CountUser(mh, keys) ==
    IF keys = {} THEN 0
    ELSE LET k == CHOOSE x \in keys : TRUE
         IN  Cardinality({i \in 1..Len(mh[k].list) : mh[k].list[i] \in UserHandlers})
                + CountUser(mh, keys \ {k})

(* --------------------------- state record ------------------------------ *)
Cur ==
    [host |-> host, ws |-> ws, wss |-> wss, sessionId |-> sessionId,
     stationList |-> stationList, currentStation |-> currentStation,
     isPreviewing |-> isPreviewing, open |-> openClientRequests,
     prom |-> prom, reads |-> reads, trace |-> <<>>, thrown |-> FALSE]

Log(s, ev) == [s EXCEPT !.trace = Append(@, ev)]

Throw(s, what) == [Log(s, [e |-> "throw", what |-> what]) EXCEPT !.thrown = TRUE]

\* a promise just created by `new Promise((resolve, reject) => ...)`
NewPromise(kind, name) ==
    [kind |-> kind, name |-> name, st |-> "pending", val |-> [none |-> TRUE],
     res |-> 0, rej |-> 0, sup |-> FALSE,
     timer |-> "none", hit |-> "none", answered |-> FALSE]

\* the promise's resolve(msg) / reject(msg): the first call settles it
Settle(p, success, msg) ==
    [p EXCEPT !.st = IF p.st # "pending" THEN @
                     ELSE IF success THEN "fulfilled" ELSE "rejected",
              !.val = IF p.st # "pending" THEN @ ELSE msg,
              !.res = IF success THEN @ + 1 ELSE @,
              !.rej = IF success THEN @ ELSE @ + 1]

(* ------------------------- request correlator -------------------------- *)

\* mutant: a registration that fails the entry it replaces
_registerClientRequest_rejectsOld(s, request_id, p) ==
    LET old == s.open[request_id]
        s1 == IF old # 0
              THEN [s EXCEPT !.prom[old] =
                        Settle([@ EXCEPT !.sup = TRUE], FALSE, [message |-> "replaced"])]
              ELSE s
    IN  Log([s1 EXCEPT !.open[request_id] = p],
            [e |-> "register", name |-> request_id, p |-> p])

_registerClientRequest(s, request_id, p) ==
    LET old == s.open[request_id]
        s1 == IF old # 0 THEN [s EXCEPT !.prom[old].sup = TRUE] ELSE s
    IN  Log([s1 EXCEPT !.open[request_id] = p],
            [e |-> "register", name |-> request_id, p |-> p])


\* mutant: a resolution that leaves the entry in the registry
_resolveClientRequest_keepsEntry(s, request_id, success, msg) ==
    LET entry == s.open[request_id]
    IN  IF entry # 0
        THEN Log([s EXCEPT !.prom[entry] = Settle(@, success, msg)],
                 [e |-> "settle", name |-> request_id, p |-> entry,
                  success |-> success, msg |-> msg])
        ELSE Log(s, [e |-> "resolve_miss", name |-> request_id])

_resolveClientRequest(s, request_id, success, msg) ==
    LET entry == s.open[request_id]
    IN  IF entry # 0
        THEN Log([s EXCEPT !.open[request_id] = 0,
                           !.prom[entry] = Settle(@, success, msg)],
                 [e |-> "settle", name |-> request_id, p |-> entry,
                  success |-> success, msg |-> msg])
        ELSE Log(s, [e |-> "resolve_miss", name |-> request_id])

(* ------------------------- message dispatcher -------------------------- *)
\* this.stationList[station_id] for a station list that is a JSON array and
\* a station_id that is a string: an element only for an index in range
ArrayIndex(id) ==
    CASE id = "0" -> 1
      [] id = "1" -> 2
      [] OTHER -> 0

StationLookup(list, id) ==
    IF ArrayIndex(id) \in 1..Len(list.items)
    THEN list.items[ArrayIndex(id)] ELSE UndefinedObj

\* the built-in handlers, called with `this` bound to the instance
connection_open(s, event) == s


\* mutant: a close handler that leaves the connect request alone
connection_close_ignores(s, event) == s

connection_close(s, event) ==
    _resolveClientRequest(s, "connect", FALSE,
        [status |-> "ERROR", message |-> "rejected by websocket onclose()",
         event |-> [code |-> event.code, reason |-> event.reason,
                    wasClean |-> event.wasClean]])

response_connect(s, msg) ==
    IF msg.status = "OK" THEN [s EXCEPT !.sessionId = msg.session_id] ELSE s

response_station_list(s, msg) ==
    IF msg.status = "OK" THEN [s EXCEPT !.stationList = msg.stations] ELSE s

response_station_select(s, msg) ==
    IF msg.status = "OK"
    THEN IF s.stationList \in {NullObj, UndefinedObj}
         THEN Throw(s, "TypeError")
         ELSE [s EXCEPT !.currentStation =
                            StationLookup(s.stationList, msg.station_id)]
    ELSE s

response_preview_start(s, msg) ==
    IF msg.status = "OK" THEN [s EXCEPT !.isPreviewing = TRUE] ELSE s

response_preview_stop(s, msg) ==
    IF msg.status = "OK" THEN [s EXCEPT !.isPreviewing = FALSE] ELSE s

defaultMessageHandlers(s, key, msg) ==
    CASE key = "connection:open" -> connection_open(s, msg)
      [] key = "connection:close" -> connection_close(s, msg)
      [] key = "response:connect" -> response_connect(s, msg)
      [] key = "response:station_list" -> response_station_list(s, msg)
      [] key = "response:station_select" -> response_station_select(s, msg)
      [] key = "response:preview_start" -> response_preview_start(s, msg)
      [] key = "response:preview_stop" -> response_preview_stop(s, msg)

\* one handler of the list: the placeholder and user_ok return, user_throw
\* throws, the built-in one does its bookkeeping
CallHandler(s, key, msg, h, i) ==
    LET s1 == Log(s, [e |-> "call", key |-> key, idx |-> i - 1, h |-> h])
    IN  CASE h = "builtin" -> defaultMessageHandlers(s1, key, msg)
          [] h = "user_throw" -> Throw(s1, "user")
          [] OTHER -> s1

RECURSIVE ForEachHandler(_, _, _, _, _)
ForEachHandler(s, key, msg, hs, i) ==
    IF i > Len(hs) \/ s.thrown THEN s
    ELSE ForEachHandler(CallHandler(s, key, msg, hs[i], i), key, msg, hs, i + 1)

_callMessageHandler(s, key, msg) ==
    LET handlers == IF key \in DOMAIN messageHandlers /\ messageHandlers[key].def
                    THEN messageHandlers[key].list ELSE <<>>
    IN  ForEachHandler(s, key, msg, handlers, 1)

handleServerRequest(s, request, msg) ==
    LET s0 == Log(s, [e |-> "dispatch", class |-> "request:", name |-> request,
                      msg |-> msg])
        s1 == _callMessageHandler(s0, "request:", msg)
    IN  IF s1.thrown THEN s1
        ELSE _callMessageHandler(s1, "request:" \o request, msg)


\* mutant: the handlers of the specific key are called first
handleServerResponse_specificFirst(s, response, msg) ==
    LET s0 == Log(s, [e |-> "dispatch", class |-> "response:", name |-> response,
                      msg |-> msg])
        s1 == _callMessageHandler(s0, "response:" \o response, msg)
    IN  IF s1.thrown THEN s1
        ELSE _callMessageHandler(s1, "response:", msg)

handleServerResponse(s, response, msg) ==
    LET s0 == Log(s, [e |-> "dispatch", class |-> "response:", name |-> response,
                      msg |-> msg])
        s1 == _callMessageHandler(s0, "response:", msg)
    IN  IF s1.thrown THEN s1
        ELSE _callMessageHandler(s1, "response:" \o response, msg)

(* ---------------------------- frame decoder ---------------------------- *)
\* frame.slice(a, b): positions from 0, b exclusive, cut at the end
Slice(seq, a, b) == SubSeq(seq, a + 1, IF b < Len(seq) THEN b ELSE Len(seq))

\* the DataView read fails on a buffer that is too short, and 0 is returned
bufferToInt32(buf) == IF buf = <<>> THEN 0 ELSE buf[1].n

\* String.fromCharCode.apply(null, bytes) of a 4-character identifier
CharsOf(buf) == IF buf = <<>> THEN "" ELSE buf[1].v

\* String.prototype.trim: blanks go, NUL characters stay
RECURSIVE Trim(_)
Trim(text) ==
    IF text = <<>> THEN text
    ELSE IF text[1].u = " " THEN Trim(Tail(text))
    ELSE IF text[Len(text)].u = " " THEN Trim(SubSeq(text, 1, Len(text) - 1))
    ELSE text

FieldAt(text, k) == {i \in DOMAIN text : text[i].u = "field" /\ text[i].k = k}

\* the value a JSON object holds under k: the last one given
FieldStr(text, k) ==
    IF FieldAt(text, k) = {} THEN Undefined
    ELSE text[CHOOSE i \in FieldAt(text, k) : \A j \in FieldAt(text, k) : j <= i].v

FieldNum(text, k) ==
    IF FieldAt(text, k) = {} THEN UndefinedObj
    ELSE [js |-> "number",
          n |-> text[CHOOSE i \in FieldAt(text, k) : \A j \in FieldAt(text, k) : j <= i].n]

\* JSON.parse of the texts a frame can embed: ok is FALSE where it throws
JSONparse(text) ==
    IF text = <<NullTok>> THEN [ok |-> TRUE, value |-> NullObj]
    ELSE IF /\ Len(text) >= 2
            /\ text[1].u = "{" /\ text[Len(text)].u = "}"
            /\ \A i \in 2..(Len(text) - 1) : text[i].u = "field"
         THEN [ok |-> TRUE,
               value |-> [js |-> "object",
                          request |-> FieldStr(text, "request"),
                          camera |-> FieldStr(text, "camera"),
                          filesize |-> FieldNum(text, "filesize")]]
         ELSE [ok |-> FALSE, value |-> UndefinedObj]


\* mutant: a decoder that goes on with an empty event after a text that is
\* not JSON
parseFrame_keepsGoing(frame) ==
    LET b == frame.bytes
        head == [tag |-> CharsOf(Slice(b, 0, 1)),
                 version |-> bufferToInt32(Slice(b, 1, 2)),
                 frameLength |-> bufferToInt32(Slice(b, 2, 3)),
                 msgLength |-> bufferToInt32(Slice(b, 3, 4)),
                 msgType |-> CharsOf(Slice(b, 4, 5))]
        pos == HeaderUnits + head.msgLength
        parsed == JSONparse(Trim(Slice(b, HeaderUnits, pos)))
        event == IF parsed.ok THEN parsed.value
                 ELSE [js |-> "object", request |-> Undefined, camera |-> Undefined,
                       filesize |-> UndefinedObj]
        bytes == event.filesize
    IN  IF event.js = "null"
        THEN [thrown |-> TRUE, glTF |-> head]
        ELSE [thrown |-> FALSE,
              glTF |-> head @@
                  [event |-> event, state |-> [str |-> "OK"],
                   dataLength |-> bufferToInt32(Slice(b, pos, pos + 1)),
                   dataType |-> [joined |-> Slice(b, pos + 1, pos + 2)],
                   data |-> IF bytes.js = "number"
                            THEN Slice(b, pos + 2, pos + 2 + bytes.n)
                            ELSE <<>>]]

(* parseFrame: thrown tells whether it throws, glTF is what it returns.    *)
(* Reading filesize of an event that is null throws; a filesize that is    *)
(* undefined gives an end position NaN and an empty data slice.            *)
parseFrame(frame) ==
    LET b == frame.bytes
        head == [tag |-> CharsOf(Slice(b, 0, 1)),
                 version |-> bufferToInt32(Slice(b, 1, 2)),
                 frameLength |-> bufferToInt32(Slice(b, 2, 3)),
                 msgLength |-> bufferToInt32(Slice(b, 3, 4)),
                 msgType |-> CharsOf(Slice(b, 4, 5))]
        pos == HeaderUnits + head.msgLength
        parsed == JSONparse(Trim(Slice(b, HeaderUnits, pos)))
        event == parsed.value
        bytes == event.filesize
    IN  IF ~parsed.ok
        THEN [thrown |-> FALSE,
              glTF |-> head @@ [state |-> [status |-> "ERROR_FILE_BAD_JSON",
                                           error |-> "SyntaxError"]]]
        ELSE IF event.js = "null"
             THEN [thrown |-> TRUE, glTF |-> head]
             ELSE [thrown |-> FALSE,
                   glTF |-> head @@
                       [event |-> event, state |-> [str |-> "OK"],
                        dataLength |-> bufferToInt32(Slice(b, pos, pos + 1)),
                        \* the bytes listed, not decoded (toString of a
                        \* Uint8Array ignores its argument)
                        dataType |-> [joined |-> Slice(b, pos + 1, pos + 2)],
                        data |-> IF bytes.js = "number"
                                 THEN Slice(b, pos + 2, pos + 2 + bytes.n)
                                 ELSE <<>>]]

uint8ToBlog(uint8) == [js |-> "blob", type |-> "image/jpeg", bytes |-> uint8]


\* mutant: every decoded frame is announced as camera_frame
ongltf_alwaysFrame(s, gltf) ==
    IF "event" \notin DOMAIN gltf THEN Throw(s, "TypeError")
    ELSE LET msg == [camera |-> gltf.event.camera, frame |-> uint8ToBlog(gltf.data)]
         IN  handleServerRequest(s, "camera_frame", msg)

(* the callback ws.onmessage chains to parseGltfBlob: destructuring the    *)
(* event of a record that has none throws                                  *)
ongltf(s, gltf) ==
    IF "event" \notin DOMAIN gltf THEN Throw(s, "TypeError")
    ELSE LET msg == [camera |-> gltf.event.camera, frame |-> uint8ToBlog(gltf.data)]
             name == IF gltf.event.request = "buffer_capture"
                     THEN "camera_snap" ELSE "camera_frame"
         IN  handleServerRequest(s, name, msg)

\* parseGltfBlob(blob).then(ongltf) once the blob has been read: a decoder
\* that throws rejects the promise and the callback is not called
onblobread(s, blob) ==
    LET r == parseFrame(blob)
    IN  IF r.thrown THEN Throw(s, "TypeError") ELSE ongltf(s, r.glTF)

(* ------------------------------ transport ------------------------------ *)
\* ws.send(data): throws while the transport is connecting, hands the data to
\* an open transport, is dropped by a closing or closed one
wsSend(s, data) ==
    LET call == [ws |-> s.ws, data |-> data, sessionId |-> s.sessionId]
        s1 == Log(s, [e |-> "send", call |-> call])
    IN  IF s.ws = 0 THEN Throw(s, "TypeError")
        ELSE IF s.wss[s.ws] = "connecting" THEN Throw(s1, "InvalidStateError")
        ELSE s1

\* ws.close(): the close event follows later
wsClose(s) ==
    Log([s EXCEPT !.wss[s.ws] = IF @ \in {"connecting", "open"} THEN "closing" ELSE @],
        [e |-> "ws_close", ws |-> s.ws])

(* ---------------------------- public methods --------------------------- *)

\* mutant: a sendMessage without the session check
sendMessage_noSessionCheck(s, msg) ==
    wsSend(s, [msg EXCEPT !.session_id = s.sessionId])

sendMessage(s, msg) ==
    IF Falsy(s.sessionId) THEN s
    ELSE wsSend(s, [msg EXCEPT !.session_id = s.sessionId])

\* Promise.reject(payload) returned to the caller
ReturnRejected(s, message) ==
    Log(s, [e |-> "return_rejected", status |-> "ERROR", message |-> message])

sendRequest(s, msg, timeout) ==
    IF Falsy(s.sessionId) \/ msg = NullObj \/ Falsy(msg.request)
    THEN ReturnRejected(s, "invalid session or invalid request")
    ELSE LET p == Len(s.prom) + 1
             s1 == [s EXCEPT !.prom = Append(@, NewPromise("send", msg.request))]
             s2 == _registerClientRequest(s1, msg.request, p)
             s3 == sendMessage(s2, msg)
         IN  IF s3.thrown
             \* the executor threw: the promise is rejected with the exception
             \* and no timer is started
             THEN [s3 EXCEPT !.thrown = FALSE,
                             !.prom[p].st = "rejected",
                             !.prom[p].val = [exception |-> "InvalidStateError"]]
             ELSE IF timeout > 0
                  THEN Log([s3 EXCEPT !.prom[p].timer = "armed"],
                           [e |-> "set_timeout", p |-> p])
                  ELSE s3

connect(s, h) ==
    LET s0 == IF h \in Hosts THEN [s EXCEPT !.host = h] ELSE s
        s1 == _resolveClientRequest(s0, "connect", FALSE,
                  [status |-> "ERROR", message |-> "reset by new connect request"])
        w == Len(s1.wss) + 1
        s2 == Log([s1 EXCEPT !.wss = Append(@, "connecting"), !.ws = w],
                  [e |-> "ws_new", ws |-> w])
        p == Len(s2.prom) + 1
        s3 == [s2 EXCEPT !.prom = Append(@, NewPromise("connect", "connect"))]
    IN  IF s1.host \notin Hosts
        \* new WebSocket(undefined)
        THEN Throw(s1, "SyntaxError")
        ELSE _registerClientRequest(s3, "connect", p)


\* mutant: a reset that forgets the session id
ResetSession_keepsSessionId(s) ==
    Log([s EXCEPT !.stationList = NullObj,
                  !.currentStation = NullObj, !.isPreviewing = FALSE,
                  !.open = [n \in Names |-> 0]],
        [e |-> "reset"])

ResetSession(s) ==
    Log([s EXCEPT !.sessionId = Null, !.stationList = NullObj,
                  !.currentStation = NullObj, !.isPreviewing = FALSE,
                  !.open = [n \in Names |-> 0]],
        [e |-> "reset"])

reconnect(s) ==
    IF Falsy(s.host)
    THEN ReturnRejected(s, "invalid host")
    ELSE LET s1 == IF s.ws # 0 THEN wsClose(s) ELSE s
         IN  connect(ResetSession(s1), Undefined)

(* --------------------------- transport events -------------------------- *)
\* ws.onmessage: a binary message starts a blob read whose result is handled
\* by ongltf later, a textual message is parsed and handled at once
onmessage(s, data) ==
    IF IsBlob(data)
    THEN Log([s EXCEPT !.reads = Append(@, [ws |-> s.trace[1].ws, frame |-> data,
                                            overtaken |-> FALSE])],
             [e |-> "read_blob"])
    ELSE IF ~data.json THEN Throw(s, "SyntaxError")
    ELSE IF ~Falsy(data.response_to)
         THEN handleServerResponse(
                  _resolveClientRequest(s, data.response_to, TRUE, data),
                  data.response_to, data)
         ELSE IF ~Falsy(data.request)
              THEN handleServerRequest(s, data.request, data)
              ELSE s

onopen(s, event) == _callMessageHandler(s, "connection:open", event)

onclose(s, event) == _callMessageHandler(s, "connection:close", event)


\* mutant: a timer callback that completes the request as a success
ontimeout_asSuccess(s, request) ==
    _resolveClientRequest(s, request, TRUE,
        [session_id |-> s.sessionId, message |-> "timed out"])

\* the timer callback of sendRequest
ontimeout(s, request) ==
    _resolveClientRequest(s, request, FALSE,
        [session_id |-> s.sessionId, message |-> "timed out"])

(* ------------------------------- actions ------------------------------- *)
Begin(op) == Log(Cur, [e |-> "op"] @@ op)

\* the fields, promises and pending reads an operation leaves behind
Effects(s) ==
    /\ host' = s.host
    /\ ws' = s.ws
    /\ wss' = s.wss
    /\ sessionId' = s.sessionId
    /\ stationList' = s.stationList
    /\ currentStation' = s.currentStation
    /\ isPreviewing' = s.isPreviewing
    /\ openClientRequests' = s.open
    /\ prom' = s.prom
    /\ reads' = s.reads
    /\ trace' = s.trace

CommitWithin(s, bound) ==
    /\ steps < bound
    /\ steps' = steps + 1
    /\ Effects(s)

Commit(s) == CommitWithin(s, MaxSteps)

Init ==
    /\ host \in Hosts \cup {Undefined}
    /\ ws = 0
    /\ wss = <<>>
    /\ sessionId = Null
    /\ stationList = NullObj
    /\ currentStation = NullObj
    /\ isPreviewing = FALSE
    /\ messageHandlers = _setDefaultMessageHandlers([k \in KeySet |-> NoHandlers])
    /\ openClientRequests = [n \in Names |-> 0]
    /\ prom = <<>>
    /\ reads = <<>>
    /\ trace = <<>>
    /\ steps = 0

Connect ==
    \E h \in Hosts \cup {Undefined} :
        /\ (h \in Hosts \/ host \in Hosts) => Len(wss) < MaxWs /\ Len(prom) < MaxReq
        /\ Commit(connect(Begin([op |-> "connect"]), h))
        /\ UNCHANGED messageHandlers

Reconnect ==
    /\ host \in Hosts => Len(wss) < MaxWs /\ Len(prom) < MaxReq
    /\ Commit(reconnect(Begin([op |-> "reconnect"])))
    /\ UNCHANGED messageHandlers

SendMessage ==
    /\ Commit(sendMessage(Begin([op |-> "sendMessage"]), OutMsg("ping")))
    /\ UNCHANGED messageHandlers

SendRequest ==
    \E msg \in SendInputs, timeout \in Timeouts :
        /\ Len(prom) < MaxReq
        /\ Commit(sendRequest(
               Begin([op |-> "sendRequest"]),
               msg, timeout))
        /\ UNCHANGED messageHandlers

TimerFire ==
    \E p \in 1..Len(prom) :
        /\ prom[p].timer = "armed"
        /\ LET name == prom[p].name
               entry == openClientRequests[name]
               hit == IF entry = p THEN "self" ELSE IF entry # 0 THEN "other" ELSE "none"
               s0 == Begin([op |-> "timer", p |-> p])
               s1 == [s0 EXCEPT !.prom[p].timer = "fired", !.prom[p].hit = hit]
           IN  Commit(ontimeout(s1, name))
        /\ UNCHANGED messageHandlers

WsOpen ==
    \E w \in 1..Len(wss) :
        /\ wss[w] = "connecting"
        /\ LET s0 == Begin([op |-> "onopen", ws |-> w])
           IN  Commit(onopen([s0 EXCEPT !.wss[w] = "open"], [type |-> "open"]))
        /\ UNCHANGED messageHandlers

WsClose ==
    \E w \in 1..Len(wss), event \in CloseEvents :
        /\ wss[w] # "closed"
        /\ LET s0 == Begin([op |-> "onclose", ws |-> w, event |-> event])
           IN  Commit(onclose([s0 EXCEPT !.wss[w] = "closed"], event))
        /\ UNCHANGED messageHandlers

\* a response that arrives while a timer of a request of that name is armed
RECURSIVE AnswerFrom(_, _, _)
AnswerFrom(s, data, p) ==
    IF p > Len(s.prom) THEN s
    ELSE AnswerFrom(
             IF data.json /\ s.prom[p].timer = "armed"
                          /\ s.prom[p].name = data.response_to
             THEN [s EXCEPT !.prom[p].answered = TRUE] ELSE s,
             data, p + 1)

Answer(s, data) == AnswerFrom(s, data, 1)

WsMessage ==
    \E w \in 1..Len(wss), data \in InboundTexts :
        /\ wss[w] = "open"
        /\ LET s0 == Begin([op |-> "onmessage", ws |-> w])
           IN  Commit(onmessage(Answer(s0, data), data))
        /\ UNCHANGED messageHandlers

Register(op, key, handler) ==
    /\ CountUser(messageHandlers, KeySet) < MaxUser
    /\ steps < MaxSteps
    /\ steps' = steps + 1
    /\ messageHandlers' =
          IF handler = NotCallable THEN messageHandlers
          ELSE _setMessageHandler(messageHandlers, key, handler)
    /\ trace' = <<[e |-> "op", op |-> op]>>
    /\ UNCHANGED <<host, ws, wss, sessionId, stationList, currentStation,
                   isPreviewing, openClientRequests, prom, reads>>

OnServerRequest ==
    \E request \in UserRequestNames, handler \in UserHandlers \cup {NotCallable} :
        Register("onServerRequest", "request:" \o request, handler)

OnServerResponse ==
    \E response \in UserResponseNames, handler \in UserHandlers \cup {NotCallable} :
        Register("onServerResponse", "response:" \o response, handler)

OnConnectionOpen ==
    \E handler \in UserHandlers \cup {NotCallable} :
        Register("onConnectionOpen", "connection:open", handler)

OnConnectionClose ==
    \E handler \in UserHandlers \cup {NotCallable} :
        Register("onConnectionClose", "connection:close", handler)

Next ==
    \/ Connect
    \/ Reconnect
    \/ SendMessage
    \/ SendRequest
    \/ TimerFire
    \/ WsOpen
    \/ WsClose
    \/ WsMessage
    \/ OnServerRequest
    \/ OnServerResponse
    \/ OnConnectionOpen
    \/ OnConnectionClose

Spec == Init /\ [][Next]_vars

(* ------------------------ binary and text messages --------------------- *)
(* Runs in which the server sends frames as well as texts.  A blob read    *)
(* ends at some later time: after later messages were handled, and in any  *)
(* order among the reads in flight.                                        *)
FrameTexts ==
    {JsonMsg("connect", Undefined, "OK", "s1", UndefinedObj, Undefined)}
        \cup ServerRequests

FrameKeys == {"request:", "request:camera_snap", "response:", "response:connect"}

RemoveAt(seq, i) == SubSeq(seq, 1, i - 1) \o SubSeq(seq, i + 1, Len(seq))

HasCalls(s) == \E i \in DOMAIN s.trace : s.trace[i].e = "call"

\* the reads 1..n of transport w see a later message reach handlers first
RECURSIVE MarkFrom(_, _, _, _)
MarkFrom(s, w, n, i) ==
    IF i > n THEN s
    ELSE MarkFrom(IF s.reads[i].ws = w
                  THEN [s EXCEPT !.reads[i].overtaken = TRUE] ELSE s,
                  w, n, i + 1)

Overtake(s, w, n) == IF HasCalls(s) THEN MarkFrom(s, w, n, 1) ELSE s

FrameMessage ==
    \E w \in 1..Len(wss), data \in FrameTexts \cup Frames :
        /\ wss[w] = "open"
        /\ IsBlob(data) => Len(reads) < MaxReads
        /\ LET s0 == Begin([op |-> "onmessage", ws |-> w])
           IN  Commit(Overtake(onmessage(s0, data), w, Len(reads)))
        /\ UNCHANGED messageHandlers

BlobRead ==
    \E i \in DOMAIN reads :
        /\ LET r == reads[i]
               s0 == Begin([op |-> "frame", ws |-> r.ws, frame |-> r.frame,
                            overtaken |-> r.overtaken])
               s1 == [s0 EXCEPT !.reads = RemoveAt(@, i)]
           IN  Commit(Overtake(onblobread(s1, r.frame), r.ws, i - 1))
        /\ UNCHANGED messageHandlers

FrameRegister ==
    \E key \in FrameKeys, handler \in UserHandlers :
        /\ CountUser(messageHandlers, KeySet) < MaxHandlers
        /\ steps < MaxSteps
        /\ steps' = steps + 1
        /\ messageHandlers' = _setMessageHandler(messageHandlers, key, handler)
        /\ trace' = <<[e |-> "op", op |-> "onServer", key |-> key]>>
        /\ UNCHANGED <<host, ws, wss, sessionId, stationList, currentStation,
                       isPreviewing, openClientRequests, prom, reads>>

NextFrames ==
    \/ Connect
    \/ WsOpen
    \/ FrameMessage
    \/ BlobRead
    \/ FrameRegister

SpecFrames == Init /\ [][NextFrames]_vars

(* ----------------------- requests and their timers --------------------- *)
(* Longer runs of one session: connect, the transport's open event, the    *)
(* server's answers, requests sent with and without a timeout, and the     *)
(* timers of these requests.                                               *)
LongTexts ==
    {JsonMsg("connect", Undefined, "OK", "s1", UndefinedObj, Undefined),
     JsonMsg("station_list", Undefined, "OK", Undefined, StationsA, Undefined)}

LongConnect ==
    \E h \in Hosts :
        /\ Len(wss) < MaxWs /\ Len(prom) < MaxReq
        /\ CommitWithin(connect(Begin([op |-> "connect"]), h), MaxLongSteps)
        /\ UNCHANGED messageHandlers

LongOpen ==
    \E w \in 1..Len(wss) :
        /\ wss[w] = "connecting"
        /\ LET s0 == Begin([op |-> "onopen", ws |-> w])
           IN  CommitWithin(onopen([s0 EXCEPT !.wss[w] = "open"], [type |-> "open"]),
                            MaxLongSteps)
        /\ UNCHANGED messageHandlers

LongMessage ==
    \E w \in 1..Len(wss), data \in LongTexts :
        /\ wss[w] = "open"
        /\ LET s0 == Begin([op |-> "onmessage", ws |-> w])
           IN  CommitWithin(onmessage(Answer(s0, data), data), MaxLongSteps)
        /\ UNCHANGED messageHandlers

LongSend ==
    \E timeout \in Timeouts :
        /\ Len(prom) < MaxReq
        /\ CommitWithin(sendRequest(Begin([op |-> "sendRequest"]),
                                    OutMsg("station_list"), timeout),
                        MaxLongSteps)
        /\ UNCHANGED messageHandlers

LongTimer ==
    \E p \in 1..Len(prom) :
        /\ prom[p].timer = "armed"
        /\ LET name == prom[p].name
               entry == openClientRequests[name]
               hit == IF entry = p THEN "self" ELSE IF entry # 0 THEN "other" ELSE "none"
               s0 == Begin([op |-> "timer", p |-> p])
               s1 == [s0 EXCEPT !.prom[p].timer = "fired", !.prom[p].hit = hit]
           IN  CommitWithin(ontimeout(s1, name), MaxLongSteps)
        /\ UNCHANGED messageHandlers

NextLong ==
    \/ LongConnect
    \/ LongOpen
    \/ LongMessage
    \/ LongSend
    \/ LongTimer

SpecLong == Init /\ [][NextLong]_vars

(* ------------------- the handler registry on its own ------------------- *)
(* _setMessageHandler called as the methods above call it, and with null   *)
(* as handler, which the methods above never pass on.                      *)
RegistryKeys == {"connection:close", "response:connect", "response:", "request:notice"}

SetHandler ==
    \E key \in RegistryKeys, handler \in UserHandlers \cup {Null} :
        /\ handler # Null => CountUser(messageHandlers, KeySet) < MaxHandlers
        /\ steps < MaxRegistrySteps
        /\ steps' = steps + 1
        /\ messageHandlers' = _setMessageHandler(messageHandlers, key, handler)
        /\ trace' = <<[e |-> "op", op |-> "_setMessageHandler",
                       key |-> key, handler |-> handler]>>
        /\ UNCHANGED <<host, ws, wss, sessionId, stationList, currentStation,
                       isPreviewing, openClientRequests, prom, reads>>

SpecRegistry == Init /\ [][SetHandler]_vars

(* ------------------------------ properties ----------------------------- *)
\* the operation that led to the current state
TraceOp == IF trace = <<>> THEN "none" ELSE trace[1].op

\* where the effects of kind e stand in a trace
EventsIn(tr, e) == {i \in DOMAIN tr : tr[i].e = e}
Events(e) == EventsIn(trace, e)

\* the promises completed through a call of resolve / reject of an entry
Invoked(p) == prom[p].res + prom[p].rej

(* C1: for every request sent with sendRequest, a correlated response with *)
(* status "OK" fulfills the returned result with that response and one     *)
(* with status "ERROR" rejects it; no request is fulfilled by an ERROR     *)
(* response.                                                               *)
C1_StatusDecidesOutcome ==
    TraceOp = "onmessage" =>
        \A i \in Events("settle") :
            (trace[i].success /\ prom[trace[i].p].kind = "send") =>
                LET m == trace[i].msg
                    r == prom[trace[i].p]
                IN  /\ m.status = "OK" => r.st = "fulfilled" /\ r.val = m
                    /\ m.status = "ERROR" => r.st = "rejected"

(* C2 as stated: a request sent with a timeout whose timer has fired       *)
(* without a response having arrived before is rejected with message       *)
(* "timed out", whatever else happened in the meantime.                    *)
C2_TimeoutAlwaysRejects ==
    \A p \in DOMAIN prom :
        (prom[p].timer = "fired" /\ ~prom[p].answered) =>
            prom[p].st = "rejected" /\ prom[p].val.message = "timed out"

(* C2 as amended: when the timer of a request fires while the entry        *)
(* registered by that sendRequest call is still the one pending under its  *)
(* name, the call's result is rejected with message "timed out"; when the  *)
(* entry is no longer that call's (replaced, dropped by reconnect, already *)
(* resolved) the timer does not complete that call's result.               *)
C2_TimerRejectsOwnEntry ==
    \A p \in DOMAIN prom :
        prom[p].timer = "fired" =>
            IF prom[p].hit = "self"
            THEN /\ prom[p].st = "rejected"
                 /\ prom[p].val.message = "timed out"
                 /\ prom[p].rej = 1 /\ prom[p].res = 0
            ELSE (TraceOp = "timer" /\ trace[1].p = p) =>
                    \A i \in Events("settle") : trace[i].p # p

C2_Witness ==
    \E p \in DOMAIN prom :
        /\ prom[p].kind = "send" /\ prom[p].timer = "fired" /\ prom[p].hit = "self"
        /\ prom[p].st = "rejected" /\ prom[p].val.message = "timed out"

(* C3: once a newer connect has registered its pending request, no earlier *)
(* connect result is still outstanding (connect has rejected it with       *)
(* "reset by new connect request").                                        *)
C3_EarlierConnectRejected ==
    \A p, q \in DOMAIN prom :
        (p < q /\ prom[p].kind = "connect" /\ prom[q].kind = "connect") =>
            prom[p].st # "pending"

(* C4: a transport close event dispatched while a connect pending request  *)
(* is outstanding removes that request and invokes its failure callback    *)
(* with status "ERROR" and the event's code, reason and wasClean; after    *)
(* the close event no connect pending request remains.                     *)
C4_CloseRejectsConnect ==
    [][(trace' # <<>> /\ trace'[1].op = "onclose") =>
          LET p == openClientRequests["connect"]
              ev == trace'[1].event
          IN  /\ openClientRequests'["connect"] = 0
              /\ p # 0 =>
                    /\ prom'[p].rej = prom[p].rej + 1
                    /\ prom'[p].res = prom[p].res
                    /\ \E i \in EventsIn(trace', "settle") :
                          /\ trace'[i].p = p
                          /\ ~trace'[i].success
                          /\ trace'[i].msg.status = "ERROR"
                          /\ trace'[i].msg.event =
                                [code |-> ev.code, reason |-> ev.reason,
                                 wasClean |-> ev.wasClean]]_vars

C4_Witness ==
    /\ TraceOp = "onclose"
    /\ \E i \in Events("settle") :
          /\ trace[i].name = "connect"
          /\ prom[trace[i].p].kind = "connect"
          /\ prom[trace[i].p].st = "rejected"
          /\ prom[trace[i].p].val.event.code = 1006
          /\ ~prom[trace[i].p].val.event.wasClean

(* C5: the result of connect is fulfilled only by a response that carries  *)
(* status "OK" and a session id, and sessionId equals that session id once *)
(* the response has been dispatched.                                       *)
C5_ConnectFulfilledOnlyWithSessionId ==
    TraceOp = "onmessage" =>
        \A i \in Events("settle") :
            (trace[i].success /\ prom[trace[i].p].kind = "connect"
                /\ prom[trace[i].p].st = "fulfilled") =>
                /\ trace[i].msg.status = "OK"
                /\ trace[i].msg.session_id \in SessionIds
                /\ sessionId = trace[i].msg.session_id

(* C6: reconnect with a host configured resets sessionId, stationList and  *)
(* currentStation to null and isPreviewing to false before it opens the    *)
(* new transport and registers the new connect request; reconnect without  *)
(* a host returns a rejected result and changes nothing.                   *)
C6_ReconnectResets ==
    [][(trace' # <<>> /\ trace'[1].op = "reconnect") =>
          IF Falsy(host)
          THEN /\ EventsIn(trace', "return_rejected") = {2}
               /\ trace'[2].message = "invalid host"
               /\ Len(trace') = 2
               /\ UNCHANGED <<host, ws, wss, sessionId, stationList, currentStation,
                              isPreviewing, openClientRequests, prom>>
          ELSE /\ sessionId' = Null
               /\ stationList' = NullObj
               /\ currentStation' = NullObj
               /\ isPreviewing' = FALSE
               /\ \E i, j, k \in DOMAIN trace' :
                     /\ i < j /\ j < k
                     /\ trace'[i].e = "reset"
                     /\ trace'[j].e = "ws_new" /\ trace'[j].ws = ws'
                     /\ trace'[k].e = "register" /\ trace'[k].name = "connect"
                     /\ openClientRequests'["connect"] = trace'[k].p
               /\ wss'[ws'] = "connecting"]_vars

C6_Witness ==
    /\ TraceOp = "reconnect"
    /\ Events("reset") # {}
    /\ sessionId = Null /\ stationList = NullObj /\ ~isPreviewing
    /\ \E p \in DOMAIN prom :
          /\ prom[p].kind = "connect" /\ prom[p].st = "fulfilled"
          /\ prom[p].val.status = "OK" /\ prom[p].val.session_id \in SessionIds

(* C7: sendMessage hands nothing to the transport when there is no session *)
(* id and otherwise exactly one message stamped with the current           *)
(* sessionId; every message handed to the transport carries the sessionId  *)
(* held at that moment, and messages are handed over only inside the       *)
(* sendMessage / sendRequest call that sends them (none is kept for        *)
(* later).                                                                 *)
C7_SendStampsSession ==
    /\ \A i \in Events("send") :
          /\ TraceOp \in {"sendMessage", "sendRequest"}
          /\ trace[i].call.sessionId \in SessionIds
          /\ trace[i].call.data.session_id = trace[i].call.sessionId
          /\ trace[i].call.sessionId = sessionId
    /\ TraceOp = "sendMessage" =>
          Cardinality(Events("send")) = IF sessionId \in SessionIds THEN 1 ELSE 0
    /\ TraceOp = "sendRequest" => Cardinality(Events("send")) <= 1

C7_Witness ==
    /\ TraceOp = "sendMessage"
    /\ \E i \in Events("send") : trace[i].call.data.session_id = "s2"

(* C8: sessionId is null after the close event of the current transport    *)
(* has been handled, and after reconnect.                                  *)
C8_SessionClearedOnClose ==
    /\ TraceOp = "reconnect" => sessionId = Null
    /\ (TraceOp = "onclose" /\ trace[1].ws = ws) => sessionId = Null

(* C9: of two registrations under one name the later one wins: a           *)
(* resolution completes the entry registered last under that name, the     *)
(* callbacks of a replaced registration are never invoked, and the         *)
(* registry holds at most one entry per name, which is never a replaced    *)
(* one.                                                                    *)
C9_LaterRegistrationWins ==
    /\ \A p \in DOMAIN prom : prom[p].sup => Invoked(p) = 0
    /\ \A i \in Events("settle") :
          \A q \in DOMAIN prom :
              (prom[q].name = trace[i].name /\ q > trace[i].p) =>
                  \E j \in Events("register") : j > i /\ trace[j].p = q
    /\ \A n \in Names :
          openClientRequests[n] # 0 =>
              /\ prom[openClientRequests[n]].name = n
              /\ ~prom[openClientRequests[n]].sup
              /\ Invoked(openClientRequests[n]) = 0

C9_Witness ==
    \E p, q \in DOMAIN prom :
        /\ p < q /\ prom[p].name = prom[q].name
        /\ prom[p].sup /\ Invoked(p) = 0 /\ prom[p].st = "pending"
        /\ Invoked(q) = 1
        /\ Events("settle") # {}

(* C10: resolving a name that has no pending entry invokes no callback and *)
(* leaves the pending map and the session state unchanged; a callback is   *)
(* invoked only for the entry a resolution finds, so each registered pair  *)
(* is invoked at most once, never both its success and its failure         *)
(* callback.                                                               *)
C10_ResolveOnce ==
    [][/\ \A p \in DOMAIN prom :
             prom'[p].res + prom'[p].rej =
                prom[p].res + prom[p].rej
                    + Cardinality({i \in EventsIn(trace', "settle") : trace'[i].p = p})
       /\ \A p \in DOMAIN prom' : prom'[p].res + prom'[p].rej <= 1
       /\ \A i \in EventsIn(trace', "resolve_miss") :
             \A j \in EventsIn(trace', "settle") :
                 trace'[j].name # trace'[i].name
       /\ (trace' # <<>> /\ trace'[1].op = "timer"
              /\ EventsIn(trace', "resolve_miss") # {}) =>
             /\ UNCHANGED <<host, ws, wss, sessionId, stationList, currentStation,
                            isPreviewing, openClientRequests>>
             /\ \A p \in DOMAIN prom :
                   [prom'[p] EXCEPT !.timer = "armed", !.hit = "none"] = prom[p]
                       \/ prom'[p] = prom[p]]_vars

C10_Witness ==
    /\ TraceOp = "timer"
    /\ Events("resolve_miss") # {}
    /\ prom[trace[1].p].st = "fulfilled"
    /\ Invoked(trace[1].p) = 1

(* C11: clearing the handlers of a key that has a built-in handler leaves  *)
(* exactly the built-in handler registered under it, however many user     *)
(* handlers were added before and however often the key is cleared.        *)
C11_ClearKeepsOnlyBuiltin ==
    (TraceOp = "_setMessageHandler" /\ trace[1].handler = Null
        /\ trace[1].key \in DefaultKeys) =>
        messageHandlers[trace[1].key].list = <<"builtin">>

\* the handlers registered under a key, in registration order
HandlerList(key) ==
    IF messageHandlers[key].def THEN messageHandlers[key].list ELSE <<>>

\* where the calls of the handlers of a key stand in the trace
CallsOf(key) == {i \in Events("call") : trace[i].key = key}

(* C12: when a server request or a server response is dispatched, every    *)
(* call of a handler of the generic key ("request:" / "response:") comes   *)
(* before every call of a handler of the specific key; within a key the    *)
(* handlers are called in registration order from the first on, the        *)
(* built-in one before every user handler; no other handler is called, and *)
(* all handlers of both keys are called when none of them throws.          *)
C12_GenericBeforeSpecific ==
    \A d \in Events("dispatch") :
        LET gen == trace[d].class
            spc == trace[d].class \o trace[d].name
        IN  /\ \A i \in Events("call") : i > d /\ trace[i].key \in {gen, spc}
            /\ \A i \in CallsOf(gen) : \A j \in CallsOf(spc) : i < j
            /\ \A k \in {gen, spc} :
                  /\ \A i, j \in CallsOf(k) :
                        i < j => trace[i].idx < trace[j].idx
                  /\ \A i \in CallsOf(k) :
                        /\ trace[i].idx + 1 \in DOMAIN HandlerList(k)
                        /\ trace[i].h = HandlerList(k)[trace[i].idx + 1]
                        /\ \A n \in 0..(trace[i].idx - 1) :
                              \E j \in CallsOf(k) : j < i /\ trace[j].idx = n
                  /\ \A i, j \in CallsOf(k) :
                        (trace[i].h = "builtin" /\ trace[j].h \in UserHandlers) => i < j
                  /\ Events("throw") = {} =>
                        Cardinality(CallsOf(k)) = Len(HandlerList(k))

C12_Witness ==
    /\ TraceOp = "onmessage"
    /\ \E i, j, k \in Events("call") :
          /\ i < j /\ j < k
          /\ trace[i].key = "response:" /\ trace[i].h \in UserHandlers
          /\ trace[j].key = "response:connect" /\ trace[j].h = "builtin"
          /\ trace[k].key = "response:connect" /\ trace[k].h \in UserHandlers

(* C13: whenever a response named connect, station_list, station_select,   *)
(* preview_start or preview_stop is dispatched, and whenever a transport   *)
(* close event is handled, the built-in handler of that key is called,     *)
(* whatever user handlers are registered and whatever they do.             *)
C13_BuiltinAlwaysRuns ==
    /\ \A d \in Events("dispatch") :
          (trace[d].class = "response:" /\ trace[d].name \in ResponseNames) =>
              \E i \in CallsOf("response:" \o trace[d].name) : trace[i].h = "builtin"
    /\ TraceOp = "onclose" =>
          \E i \in CallsOf("connection:close") : trace[i].h = "builtin"

\* a frame that parseFrame decodes into a record with an event
Decodes(frame) == ~parseFrame(frame).thrown /\ "event" \in DOMAIN parseFrame(frame).glTF

(* C14: when the blob of a binary message has been read and decodes, one   *)
(* server request is dispatched and no more: camera_snap when the event's  *)
(* request is "buffer_capture", camera_frame otherwise; its message holds  *)
(* the event's camera and the frame's payload (event.filesize bytes after  *)
(* dataType); no pending request is resolved or removed.                   *)
C14_FrameDispatchedOnce ==
    [][(trace' # <<>> /\ trace'[1].op = "frame" /\ Decodes(trace'[1].frame)) =>
          LET f == trace'[1].frame
              g == parseFrame(f).glTF
          IN  /\ Cardinality(EventsIn(trace', "dispatch")) = 1
              /\ \A d \in EventsIn(trace', "dispatch") :
                    /\ trace'[d].class = "request:"
                    /\ trace'[d].name = IF g.event.request = "buffer_capture"
                                        THEN "camera_snap" ELSE "camera_frame"
                    /\ trace'[d].msg.camera = g.event.camera
                    /\ trace'[d].msg.frame.bytes = g.data
                    /\ f \in {SnapFrame, PaddedFrame} =>
                          /\ trace'[d].name = "camera_snap"
                          /\ trace'[d].msg.camera = "c"
                          /\ trace'[d].msg.frame.bytes = <<Byte(1), Byte(2)>>
                    /\ f = PreviewFrame =>
                          /\ trace'[d].name = "camera_frame"
                          /\ trace'[d].msg.frame.bytes = <<Byte(1)>>
                    /\ f = BareFrame =>
                          /\ trace'[d].name = "camera_frame"
                          /\ trace'[d].msg.camera = "d"
                          /\ trace'[d].msg.frame.bytes = <<>>
              /\ EventsIn(trace', "settle") = {}
              /\ EventsIn(trace', "resolve_miss") = {}
              /\ UNCHANGED <<openClientRequests, prom>>]_vars

C14_Witness ==
    /\ TraceOp = "frame"
    /\ trace[1].frame = SnapFrame
    /\ \E d \in Events("dispatch") : trace[d].name = "camera_snap"
    /\ \E i \in CallsOf("request:camera_snap") : trace[i].h \in UserHandlers
    /\ openClientRequests["connect"] # 0

(* C15: parseFrame of a frame whose embedded text is not valid JSON does   *)
(* not throw and returns a record with state.status ERROR_FILE_BAD_JSON    *)
(* and without event, dataLength, dataType and data; when the blob of such *)
(* a frame has been read, nothing is dispatched, no handler is called, the *)
(* session fields, the pending requests, the transports and the other      *)
(* reads in flight stay as they are, and the next message of an open       *)
(* transport is handled as before.                                         *)
C15_BadJsonFrameIgnored ==
    /\ [][(trace' # <<>> /\ trace'[1].op = "frame" /\ trace'[1].frame \in BadFrames) =>
             LET r == parseFrame(trace'[1].frame)
             IN  /\ ~r.thrown
                 /\ "status" \in DOMAIN r.glTF.state
                 /\ r.glTF.state.status = "ERROR_FILE_BAD_JSON"
                 /\ DOMAIN r.glTF \cap {"event", "dataLength", "dataType", "data"} = {}
                 /\ EventsIn(trace', "dispatch") = {}
                 /\ EventsIn(trace', "call") = {}
                 /\ EventsIn(trace', "settle") = {}
                 /\ \E i \in DOMAIN reads : reads' = RemoveAt(reads, i)
                 /\ UNCHANGED <<host, ws, wss, sessionId, stationList,
                                currentStation, isPreviewing, openClientRequests,
                                prom, messageHandlers>>]_vars
    /\ []((TraceOp = "frame" /\ trace[1].frame \in BadFrames /\ steps < MaxSteps
              /\ wss[trace[1].ws] = "open") => ENABLED FrameMessage)

C15_Witness ==
    /\ TraceOp = "frame"
    /\ trace[1].frame = CutFrame
    /\ Events("throw") # {}
    /\ sessionId \in SessionIds
    /\ reads # <<>>

(* C16: when a response to station_select with status "OK" and station id  *)
(* s is dispatched while stationList is a sequence of station records one  *)
(* of which has id s, currentStation is that record afterwards.            *)
(* A response to station_select with another status leaves currentStation  *)
(* as it is.                                                               *)
C16_SelectsStationById ==
    [][\A d \in EventsIn(trace', "dispatch") :
          (/\ trace'[d].name = "station_select"
           /\ \E i \in EventsIn(trace', "call") :
                 /\ trace'[i].key = "response:station_select"
                 /\ trace'[i].h = "builtin") =>
              IF trace'[d].msg.status = "OK"
              THEN stationList.js = "array" =>
                      \A i \in DOMAIN stationList.items :
                          stationList.items[i].id = trace'[d].msg.station_id =>
                              currentStation' = stationList.items[i]
              ELSE currentStation' = currentStation]_vars

(* C17: the timer of a request that was answered before the timer fired    *)
(* completes no other request: a later request of the same name that is    *)
(* pending when the timer fires stays pending.                             *)
C17_TimerSparesLaterRequest ==
    (TraceOp = "timer" /\ prom[trace[1].p].answered) =>
        \A i \in Events("settle") : trace[i].p = trace[1].p

(* C18: a close event or a message that a transport delivers after connect *)
(* or reconnect has replaced it completes no connect request and leaves    *)
(* sessionId as it is.                                                     *)
C18_SupersededTransportIgnored ==
    [][(trace' # <<>> /\ trace'[1].op \in {"onclose", "onmessage"}
           /\ trace'[1].ws # ws) =>
          /\ sessionId' = sessionId
          /\ \A i \in EventsIn(trace', "settle") :
                prom[trace'[i].p].kind # "connect"]_vars

(* C19: the handlers of the messages of one transport are called in the    *)
(* order the messages arrived: when the blob of a binary message has been  *)
(* read after a later message of the same transport has already reached    *)
(* handlers, no handler is left to call for the binary message.            *)
C19_ArrivalOrder ==
    (TraceOp = "frame" /\ trace[1].overtaken) => Events("call") = {}

(* C20: every message handed to the transport is handed to a transport in  *)
(* the Open state.                                                         *)
C20_SendOnlyWhenOpen ==
    \A i \in Events("send") : wss[trace[i].call.ws] = "open"

====
